---- MODULE Spec2Model ----
(***************************************************************************)
(* Discovery of Active Directory domain controllers through DNS and their  *)
(* ordering by round trip time: a model of                                 *)
(* src/environment/discovery/discovery_utils.py.                           *)
(*                                                                         *)
(* One discovery call is followed from the public entry point through the  *)
(* DNS lookup, the construction of the lookup closures, the thread pool    *)
(* that runs them, and the filter / sort / trim of their results.          *)
(***************************************************************************)
EXTENDS Integers, Sequences, FiniteSets, TLC

VARIABLES
    kind,             \* which public entry point the caller uses: "LDAP" or "KDC"
    dns_answer,       \* environment: what temp_resolver.resolve() does
    net,              \* environment: how each host answers a probe
    pc,               \* position of the calling thread
    record_name,      \* the SRV name handed to _resolve_record_in_dns
    server_limit,     \* parameter of the entry point (None or an int)
    secure,           \* parameter of the LDAP entry point
    record_tuples,    \* what _resolve_record_in_dns returned
    lookup_rtt_fns,   \* the closures built by _order_*_by_rtt
    server_host,      \* local of _order_*_by_rtt, read by the closures when called
    server_port,      \* local of _order_*_by_rtt, read by the closures when called
    executor,         \* "none", "open" or "shutdown"
    running_tasks,    \* the futures, in submission order
    rtt_results,      \* task.result() of each future, in submission order
    rtt_uri_tuples,   \* the filtered, sorted (rtt, uri) tuples
    result_list,      \* the uris of rtt_uri_tuples
    short_list,       \* result_list, trimmed
    result,           \* what the entry point returned
    fault,            \* the exception that left the entry point, if any
    socket_errors,    \* environment: the address family whose socket.socket() raises
    previous,         \* how the caller's previous call with these arguments ended
    probe             \* one probe function followed statement by statement

\* What the actions of a discovery call leave alone.
aux_vars == <<socket_errors, previous, probe>>

vars == <<kind, dns_answer, net, pc, record_name, server_limit, secure,
          record_tuples, lookup_rtt_fns, server_host, server_port, executor,
          running_tasks, rtt_results, rtt_uri_tuples, result_list, short_list,
          result, fault, aux_vars>>

-----------------------------------------------------------------------------
(* Bounds of the model.                                                    *)

MaxRecords == 2
MaxResolved == 3
MaxPriority == 1
MaxWeight == 1
MaxLatency == 1
MaxLimit == 2

-----------------------------------------------------------------------------
(* Python values.                                                          *)

PyNone == [tag |-> "None"]
PyInt(n) == [tag |-> "int", val |-> n]
PyTuple(rtt, uri) == [tag |-> "tuple", rtt |-> rtt, uri |-> uri]
PyList(items) == [tag |-> "list", items |-> items]
\* what a call leaves behind when it raises instead of returning
PyRaise(exc) == [tag |-> "raise", exc |-> exc]

\* bool(x) for x None or an int
Truthy(x) == x.tag = "int" /\ x.val # 0

NoFault == "none"

\* s[:k] of a Python list
RECURSIVE Take(_, _)
Take(s, n) == IF n <= 0 \/ s = <<>> THEN <<>> ELSE <<Head(s)>> \o Take(Tail(s), n - 1)

PySlicePrefix(s, k) == IF k >= 0 THEN Take(s, k) ELSE Take(s, Len(s) + k)

-----------------------------------------------------------------------------
(* The environment: names, DNS, hosts.                                     *)

Domain == "example.com"
Sites == {"site1"}
HostNames == <<"dc1.example.com", "dc2.example.com">>
Hosts == {HostNames[i] : i \in 1..Len(HostNames)}

LdapPorts == {389}
KdcPorts == {88}
PortsOf(k) == IF k = "LDAP" THEN LdapPorts ELSE KdcPorts

\* A name as DNS holds it is absolute: it ends with a dot.
Absolute(h) == h \o "."

\* record.target.to_text(omit_final_dot=True)
to_text_omit_final_dot(target) == CHOOSE h \in Hosts : Absolute(h) = target

RawRecords(k) ==
    [target : {Absolute(h) : h \in Hosts}, port : PortsOf(k),
     priority : 0..MaxPriority, weight : 0..MaxWeight]

RECURSIVE SeqsUpTo(_, _)
SeqsUpTo(S, n) ==
    IF n = 0 THEN {<<>>}
    ELSE LET shorter == SeqsUpTo(S, n - 1)
         IN  shorter \cup {Append(s, x) : s \in {t \in shorter : Len(t) = n - 1}, x \in S}

\* temp_resolver.resolve() raises a DNSException, raises something else, or
\* answers with records.
DnsAnswersUpTo(k, n) ==
    {[outcome |-> "DNSException", records |-> <<>>],
     [outcome |-> "Exception", records |-> <<>>]}
    \cup {[outcome |-> "answer", records |-> rs] : rs \in SeqsUpTo(RawRecords(k), n)}

DnsAnswers(k) == DnsAnswersUpTo(k, MaxRecords)

\* How a host answers the LDAP probe's calls.
LdapModes == {"refused", "tls_rejected", "tls_error", "ok"}
\* How a host answers the KDC probe's connects.
KdcModes == {"down", "v4_only", "v6_only", "dual"}
ModesOf(k) == IF k = "LDAP" THEN LdapModes ELSE KdcModes

\* socket.socket(family, SOCK_STREAM) raises OSError on a machine that lacks the
\* address family or has no file descriptor left; only the KDC probe calls it.
SocketErrorsOf(k) == IF k = "KDC" THEN {"none", "AF_INET", "AF_INET6"} ELSE {"none"}

Latencies == 0..MaxLatency

Limits == {PyNone} \cup {PyInt(n) : n \in (0 - 1)..MaxLimit}

-----------------------------------------------------------------------------
(* The SRV record names (environment.discovery.discovery_constants).       *)

LDAP_DNS_SRV_FORMAT(domain) == "_ldap._tcp.dc._msdcs." \o domain
LDAP_SITE_AWARE_DNS_SRV_FORMAT(site, domain) ==
    "_ldap._tcp." \o site \o "._sites.dc._msdcs." \o domain
KERBEROS_DNS_SRV_FORMAT(domain) == "_kerberos._tcp.dc._msdcs." \o domain
KERBEROS_SITE_AWARE_DNS_SRV_FORMAT(site, domain) ==
    "_kerberos._tcp." \o site \o "._sites.dc._msdcs." \o domain

-----------------------------------------------------------------------------
(* _resolve_record_in_dns: the tuples and their order.                     *)

\* (record.target.to_text(omit_final_dot=True), record.port, record.priority, record.weight)
RecordTuple(record) ==
    [host |-> to_text_omit_final_dot(record.target), port |-> record.port,
     priority |-> record.priority, weight |-> record.weight]

\* A key that leaves out the -1: weight ascending.
SortKeyWeightAscending(record_tuple) == <<record_tuple.priority, record_tuple.weight>>

\* key=lambda record_tuple: (record_tuple[2], -1*record_tuple[3])
SortKey(record_tuple) == <<record_tuple.priority, (0 - 1) * record_tuple.weight>>

\* k1 < k2 on Python tuples of two ints
KeyLess(k1, k2) == k1[1] < k2[1] \/ (k1[1] = k2[1] /\ k1[2] < k2[2])

\* sorted() is stable: x goes behind every element that is not greater than it.
RECURSIVE InsertByKey(_, _)
InsertByKey(sorted, x) ==
    IF sorted = <<>> THEN <<x>>
    ELSE IF KeyLess(SortKey(x), SortKey(Head(sorted)))
         THEN <<x>> \o sorted
         ELSE <<Head(sorted)>> \o InsertByKey(Tail(sorted), x)

RECURSIVE SortedByKey(_)
SortedByKey(s) ==
    IF s = <<>> THEN <<>>
    ELSE InsertByKey(SortedByKey(SubSeq(s, 1, Len(s) - 1)), s[Len(s)])

\* A resolver without the second except clause: an exception that is no
\* DNSException leaves the function.
ResolveWithoutCatchAll(answer) ==
    IF answer.outcome = "DNSException" THEN [fault |-> NoFault, value |-> <<>>]
    ELSE IF answer.outcome = "Exception" THEN [fault |-> "Exception", value |-> <<>>]
    ELSE [fault |-> NoFault,
          value |-> SortedByKey([i \in 1..Len(answer.records) |->
                                    RecordTuple(answer.records[i])])]

\* _resolve_record_in_dns, for what temp_resolver.resolve() did: both except
\* clauses return [], an answer is turned into tuples and sorted.
_resolve_record_in_dns(answer) ==
    IF answer.outcome = "DNSException" THEN [fault |-> NoFault, value |-> <<>>]
    ELSE IF answer.outcome = "Exception" THEN [fault |-> NoFault, value |-> <<>>]
    ELSE [fault |-> NoFault,
          value |-> SortedByKey([i \in 1..Len(answer.records) |->
                                    RecordTuple(answer.records[i])])]

-----------------------------------------------------------------------------
(* The probes.                                                             *)

\* conn.open() against a host
conn_open(mode) == IF mode = "refused" THEN "raise" ELSE "ok"

\* conn.start_tls() against a host whose open succeeded
conn_start_tls(mode) ==
    IF mode = "tls_rejected" THEN "false"
    ELSE IF mode = "tls_error" THEN "raise" ELSE "true"

\* 'ldap://{}:{}'.format(server_host, server_port)
LdapUri(host, port) == "ldap://" \o host \o ":" \o ToString(port)

\* format_utils.format_hostname_or_ip_and_port_to_uri(host, port, is_ipv6_fmt=False)
KdcUri(host, port) == host \o ":" \o ToString(port)

\* _check_ldap_server_availability_and_rtt, against a host in mode `mode`,
\* when the clock measures `rtt` between start and end.
_check_ldap_server_availability_and_rtt(host, port, secure_, mode, rtt) ==
    IF conn_open(mode) = "raise" THEN PyNone
    ELSE IF secure_ /\ conn_start_tls(mode) = "false" THEN PyNone
    ELSE IF secure_ /\ conn_start_tls(mode) = "raise" THEN PyNone
    ELSE PyTuple(rtt, LdapUri(host, port))

\* temp_socket.connect() over one address family
socket_connect(mode, family) ==
    IF family = "AF_INET6" THEN mode \in {"v6_only", "dual"}
    ELSE mode \in {"v4_only", "dual"}

\* _check_kdc_availability_and_rtt: IPv6 first, then IPv4
_check_kdc_availability_and_rtt(host, port, mode, rtt) ==
    IF socket_connect(mode, "AF_INET6") THEN PyTuple(rtt, KdcUri(host, port))
    ELSE IF socket_connect(mode, "AF_INET") THEN PyTuple(rtt, KdcUri(host, port))
    ELSE PyNone

-----------------------------------------------------------------------------
(* _process_sort_return_rtt_ordering_results: filter, sort, trim.          *)

\* Python's < on str, for the strings the probes return: their code point
\* order is the order of this enumeration.
SortedStrings ==
    [i \in 1..Len(HostNames) |-> KdcUri(HostNames[i], CHOOSE p \in KdcPorts : TRUE)]
    \o [i \in 1..Len(HostNames) |-> LdapUri(HostNames[i], CHOOSE p \in LdapPorts : TRUE)]

StrRank(str) == CHOOSE i \in 1..Len(SortedStrings) : SortedStrings[i] = str

StrLess(a, b) == StrRank(a) < StrRank(b)

\* t1 < t2 on (rtt, uri) tuples
TupleLess(t1, t2) == t1.rtt < t2.rtt \/ (t1.rtt = t2.rtt /\ StrLess(t1.uri, t2.uri))

RECURSIVE InsertTuple(_, _)
InsertTuple(sorted, x) ==
    IF sorted = <<>> THEN <<x>>
    ELSE IF TupleLess(x, Head(sorted))
         THEN <<x>> \o sorted
         ELSE <<Head(sorted)>> \o InsertTuple(Tail(sorted), x)

\* The tuples left in the order the futures were collected.
NotSortedTuples(s) == s

\* sorted(rtt_uri_tuples)
RECURSIVE SortedTuples(_)
SortedTuples(s) ==
    IF s = <<>> THEN <<>>
    ELSE InsertTuple(SortedTuples(SubSeq(s, 1, Len(s) - 1)), s[Len(s)])

\* result_tuple[0] raises TypeError when result_tuple is None
FilterRaises(results) == \E i \in 1..Len(results) : results[i].tag = "None"

\* [result_tuple for result_tuple in rtt_results if result_tuple[0] is not None]
FilterReachable(results) == SelectSeq(results, LAMBDA r : r.tag = "tuple")

\* [uri for _, uri in rtt_uri_tuples]
UrisOf(tuples) == [i \in 1..Len(tuples) |-> tuples[i].uri]

\* lines 165-171: the list that is returned
Trimmed(list, limit) ==
    IF Truthy(limit) /\ Len(list) > limit.val
    THEN PySlicePrefix(list, limit.val)
    ELSE list

\* return short_list: what _process_sort_return_rtt_ordering_results, and with
\* it _order_*_by_rtt and the entry point, returns
ReturnValue(short, full) == PyList(short)

-----------------------------------------------------------------------------
(* The state machine.                                                      *)

NoSite == ""
Unbound == "<unbound>"

\* Nothing has been called yet.
Idle ==
    /\ pc = "idle"
    /\ record_name = ""
    /\ server_limit = PyNone
    /\ secure = FALSE
    /\ record_tuples = <<>>
    /\ lookup_rtt_fns = <<>>
    /\ server_host = Unbound
    /\ server_port = 0
    /\ executor = "none"
    /\ running_tasks = <<>>
    /\ rtt_results = <<>>
    /\ rtt_uri_tuples = <<>>
    /\ result_list = <<>>
    /\ short_list = <<>>
    /\ result = PyNone
    /\ fault = NoFault

\* No call has ended yet, and no probe is followed on its own.
NoPrevious == [ended |-> "never"]
NoProbe == [pc |-> "none"]

\* Every DNS outcome, every network.
Init ==
    /\ kind \in {"LDAP", "KDC"}
    /\ dns_answer \in DnsAnswers(kind)
    /\ net \in [Hosts -> ModesOf(kind)]
    /\ socket_errors \in SocketErrorsOf(kind)
    /\ previous = NoPrevious
    /\ probe = NoProbe
    /\ Idle

\* lines 46-50: the LDAP entry point up to its call of _resolve_record_in_dns
discover_ldap_domain_controllers_in_domain(site, limit, secure_) ==
    /\ pc = "idle"
    /\ kind = "LDAP"
    /\ record_name' = IF site # NoSite
                      THEN LDAP_SITE_AWARE_DNS_SRV_FORMAT(site, Domain)
                      ELSE LDAP_DNS_SRV_FORMAT(Domain)
    /\ server_limit' = limit
    /\ secure' = secure_
    /\ pc' = "resolve"
    /\ UNCHANGED <<kind, dns_answer, net, record_tuples, lookup_rtt_fns, server_host,
                   server_port, executor, running_tasks, rtt_results, rtt_uri_tuples,
                   result_list, short_list, result, fault>>
    /\ UNCHANGED aux_vars

\* lines 66-70: the KDC entry point up to its call of _resolve_record_in_dns
discover_kdc_domain_controllers_in_domain(site, limit) ==
    /\ pc = "idle"
    /\ kind = "KDC"
    /\ record_name' = IF site # NoSite
                      THEN KERBEROS_SITE_AWARE_DNS_SRV_FORMAT(site, Domain)
                      ELSE KERBEROS_DNS_SRV_FORMAT(Domain)
    /\ server_limit' = limit
    /\ pc' = "resolve"
    /\ UNCHANGED <<kind, dns_answer, net, secure, record_tuples, lookup_rtt_fns,
                   server_host, server_port, executor, running_tasks, rtt_results,
                   rtt_uri_tuples, result_list, short_list, result, fault>>
    /\ UNCHANGED aux_vars

\* lines 74-109, called at line 50 or 70
ResolveRecordInDns ==
    /\ pc = "resolve"
    /\ LET r == _resolve_record_in_dns(dns_answer)
       IN  IF r.fault # NoFault
           THEN /\ fault' = r.fault
                /\ pc' = "raised"
                /\ UNCHANGED record_tuples
           ELSE /\ record_tuples' = r.value
                /\ pc' = "order"
                /\ UNCHANGED fault
    /\ UNCHANGED <<kind, dns_answer, net, record_name, server_limit, secure,
                   lookup_rtt_fns, server_host, server_port, executor, running_tasks,
                   rtt_results, rtt_uri_tuples, result_list, short_list, result>>
    /\ UNCHANGED aux_vars

\* lines 118-122 / 132-136: one iteration of the loop over the records. The
\* lambda binds nothing: it names the locals server_host and server_port, which
\* this iteration assigns.
OrderLoopIteration ==
    /\ pc = "order"
    /\ Len(lookup_rtt_fns) < Len(record_tuples)
    /\ LET server_tuple == record_tuples[Len(lookup_rtt_fns) + 1]
       IN  /\ server_host' = server_tuple.host
           /\ server_port' = server_tuple.port
    /\ lookup_rtt_fns' = Append(lookup_rtt_fns, [lambda |-> kind])
    /\ UNCHANGED <<kind, dns_answer, net, pc, record_name, server_limit, secure,
                   record_tuples, executor, running_tasks, rtt_results,
                   rtt_uri_tuples, result_list, short_list, result, fault>>
    /\ UNCHANGED aux_vars

\* lines 123 / 137 and 149-152: the loop is over, the thread pool is created
EnterThreadPool ==
    /\ pc = "order"
    /\ Len(lookup_rtt_fns) = Len(record_tuples)
    /\ executor' = "open"
    /\ pc' = "pool"
    /\ UNCHANGED <<kind, dns_answer, net, record_name, server_limit, secure,
                   record_tuples, lookup_rtt_fns, server_host, server_port,
                   running_tasks, rtt_results, rtt_uri_tuples, result_list,
                   short_list, result, fault>>
    /\ UNCHANGED aux_vars

\* line 153: executor.submit(lookup_fn) for the next closure
Submit ==
    /\ pc = "pool"
    /\ Len(running_tasks) < Len(lookup_rtt_fns)
    /\ running_tasks' = Append(running_tasks,
                               [state |-> "pending",
                                fn |-> lookup_rtt_fns[Len(running_tasks) + 1],
                                host |-> Unbound, port |-> 0,
                                result |-> PyNone])
    /\ UNCHANGED <<kind, dns_answer, net, pc, record_name, server_limit, secure,
                   record_tuples, lookup_rtt_fns, server_host, server_port, executor,
                   rtt_results, rtt_uri_tuples, result_list, short_list, result, fault>>
    /\ UNCHANGED aux_vars

\* lines 121 / 135: the body of the lambda, with the values its free variables
\* have when it is called
CallLookupFn(fn, rtt) ==
    IF fn.lambda = "LDAP"
    THEN _check_ldap_server_availability_and_rtt(server_host, server_port, secure,
                                                 net[server_host], rtt)
    ELSE IF socket_errors # "none"
         \* lines 233 / 236 are in no try block: the probe raises
         THEN PyRaise("OSError")
         ELSE _check_kdc_availability_and_rtt(server_host, server_port,
                                              net[server_host], rtt)

\* a worker thread of the pool runs the i-th submitted closure to its end; host
\* and port record the arguments the probe was called with. The pool's default
\* max_workers, min(32, cpu_count + 4), is above the number of tasks here, so
\* every pending task can be picked up at any time.
RunTask(i, rtt) ==
    /\ executor = "open"
    /\ i \in 1..Len(running_tasks)
    /\ running_tasks[i].state = "pending"
    /\ running_tasks' = [running_tasks EXCEPT ![i] =
                            [state |-> "done", fn |-> @.fn,
                             host |-> server_host, port |-> server_port,
                             result |-> CallLookupFn(@.fn, rtt)]]
    /\ UNCHANGED <<kind, dns_answer, net, pc, record_name, server_limit, secure,
                   record_tuples, lookup_rtt_fns, server_host, server_port, executor,
                   rtt_results, rtt_uri_tuples, result_list, short_list, result, fault>>
    /\ UNCHANGED aux_vars

\* A result() that would not wait for the future.
ResultReadyWithoutWaiting(task) == TRUE

\* task.result() blocks until the future is done
ResultReady(task) == task.state = "done"

\* lines 154-155: task.result() of the next future; it returns what the closure
\* returned, or raises what the closure raised, and the exception then leaves
\* the for loop towards the end of the with block
CollectResult ==
    /\ pc = "pool"
    /\ Len(running_tasks) = Len(lookup_rtt_fns)
    /\ Len(rtt_results) < Len(running_tasks)
    /\ LET task == running_tasks[Len(rtt_results) + 1]
       IN  /\ ResultReady(task)
           /\ IF task.result.tag = "raise"
              THEN /\ fault' = task.result.exc
                   /\ pc' = "unwind"
                   /\ UNCHANGED rtt_results
              ELSE /\ rtt_results' = Append(rtt_results, task.result)
                   /\ UNCHANGED <<pc, fault>>
    /\ UNCHANGED <<kind, dns_answer, net, record_name, server_limit, secure,
                   record_tuples, lookup_rtt_fns, server_host, server_port, executor,
                   running_tasks, rtt_uri_tuples, result_list, short_list, result>>
    /\ UNCHANGED aux_vars

\* A shutdown that would not wait: shutdown(wait=False).
ShutdownWithoutWaiting(tasks) == TRUE

\* shutdown(wait=True) returns when every submitted future is done
ShutdownReturns(tasks) == \A i \in 1..Len(tasks) : tasks[i].state = "done"

\* line 152, leaving the with block, after the loop or with an exception in
\* flight: ThreadPoolExecutor.__exit__ calls shutdown(wait=True)
ExitThreadPool ==
    /\ pc \in {"pool", "unwind"}
    /\ Len(running_tasks) = Len(lookup_rtt_fns)
    /\ pc = "pool" => Len(rtt_results) = Len(running_tasks)
    /\ ShutdownReturns(running_tasks)
    /\ executor' = "shutdown"
    /\ pc' = IF pc = "pool" THEN "filter" ELSE "raised"
    /\ UNCHANGED <<kind, dns_answer, net, record_name, server_limit, secure,
                   record_tuples, lookup_rtt_fns, server_host, server_port,
                   running_tasks, rtt_results, rtt_uri_tuples, result_list,
                   short_list, result, fault>>
    /\ UNCHANGED aux_vars

\* lines 156-171, and the returns at lines 123 / 137 and 51 / 71
FilterSortReturn ==
    /\ pc = "filter"
    /\ IF FilterRaises(rtt_results)
       THEN /\ fault' = "TypeError"
            /\ pc' = "raised"
            /\ UNCHANGED <<rtt_uri_tuples, result_list, short_list, result>>
       ELSE /\ rtt_uri_tuples' = SortedTuples(FilterReachable(rtt_results))
            /\ result_list' = UrisOf(rtt_uri_tuples')
            /\ short_list' = Trimmed(result_list', server_limit)
            /\ result' = ReturnValue(short_list', result_list')
            /\ pc' = "done"
            /\ UNCHANGED fault
    /\ UNCHANGED <<kind, dns_answer, net, record_name, server_limit, secure,
                   record_tuples, lookup_rtt_fns, server_host, server_port, executor,
                   running_tasks, rtt_results>>
    /\ UNCHANGED aux_vars

Next ==
    \/ \E site \in {NoSite} \cup Sites, limit \in Limits, secure_ \in BOOLEAN :
          discover_ldap_domain_controllers_in_domain(site, limit, secure_)
    \/ \E site \in {NoSite} \cup Sites, limit \in Limits :
          discover_kdc_domain_controllers_in_domain(site, limit)
    \/ ResolveRecordInDns
    \/ OrderLoopIteration
    \/ EnterThreadPool
    \/ Submit
    \/ \E i \in 1..MaxRecords, rtt \in Latencies : RunTask(i, rtt)
    \/ CollectResult
    \/ ExitThreadPool
    \/ FilterSortReturn

Spec == Init /\ [][Next]_vars

-----------------------------------------------------------------------------
(* The same call when every record of the DNS answer has priority 0 and    *)
(* weight 0, so that DNS leaves the records in the order it sent them.     *)

FlatAnswers(k) ==
    {a \in DnsAnswers(k) :
        \A i \in 1..Len(a.records) :
            a.records[i].priority = 0 /\ a.records[i].weight = 0}

InitFlat ==
    /\ kind \in {"LDAP", "KDC"}
    /\ dns_answer \in FlatAnswers(kind)
    /\ net \in [Hosts -> ModesOf(kind)]
    /\ socket_errors \in SocketErrorsOf(kind)
    /\ previous = NoPrevious
    /\ probe = NoProbe
    /\ Idle

SpecFlat == InitFlat /\ [][Next]_vars

-----------------------------------------------------------------------------
(* The DNS lookup alone, over longer DNS answers: the call is followed up  *)
(* to the return of _resolve_record_in_dns, so no host is ever probed.     *)

InitResolve ==
    /\ kind \in {"LDAP", "KDC"}
    /\ dns_answer \in DnsAnswersUpTo(kind, MaxResolved)
    /\ net = [h \in Hosts |-> IF kind = "LDAP" THEN "ok" ELSE "dual"]
    /\ socket_errors = "none"
    /\ previous = NoPrevious
    /\ probe = NoProbe
    /\ Idle

\* The limit and secure are not read before the lookup returns: the callers
\* here leave them at their defaults.
NextResolve ==
    \/ \E site \in {NoSite} \cup Sites :
          discover_ldap_domain_controllers_in_domain(site, PyNone, TRUE)
    \/ \E site \in {NoSite} \cup Sites :
          discover_kdc_domain_controllers_in_domain(site, PyNone)
    \/ ResolveRecordInDns

SpecResolve == InitResolve /\ [][NextResolve]_vars

-----------------------------------------------------------------------------
(* What the claims speak about.                                            *)

\* The call has ended, by a return or by an exception.
Ended == pc \in {"done", "raised"}

\* The candidates: the records the ranking is given, in their order.
Candidates == 1..Len(record_tuples)

\* The uri a probe of the i-th candidate returns when it reaches it.
CandidateUri(i) ==
    IF kind = "LDAP"
    THEN LdapUri(record_tuples[i].host, record_tuples[i].port)
    ELSE KdcUri(record_tuples[i].host, record_tuples[i].port)

\* The outcome of a probe of the i-th candidate's host and port is Reachable.
CandidateReachable(i) ==
    IF kind = "LDAP"
    THEN _check_ldap_server_availability_and_rtt(
             record_tuples[i].host, record_tuples[i].port, secure,
             net[record_tuples[i].host], 0).tag = "tuple"
    ELSE _check_kdc_availability_and_rtt(
             record_tuples[i].host, record_tuples[i].port,
             net[record_tuples[i].host], 0).tag = "tuple"

Elements(list) == {list[i] : i \in 1..Len(list)}

\* Every probe that ran came back with an outcome, Reachable or Unreachable.
EveryProbeReturned ==
    \A i \in 1..Len(running_tasks) : running_tasks[i].result.tag # "raise"

\* C1: whatever the probes' outcomes, the ranking engine ends without an
\* exception; unreachable endpoints are left out, and when every probe came
\* back Unreachable the returned lists are empty.
C1_RankingNeverFaults ==
    EveryProbeReturned =>
        /\ fault = NoFault
        /\ (Ended /\ \A i \in 1..Len(rtt_results) : rtt_results[i].tag = "None")
              => (pc = "done" /\ result_list = <<>> /\ short_list = <<>>)

\* C2: a call that returns, returns the pair (limited, full) of the lists the
\* ranking computed, not one list.
C2_ReturnsLimitedAndFull ==
    pc = "done" =>
        /\ result.tag = "tuple"
        /\ result.items = <<short_list, result_list>>

\* C3: once the pool is left, exactly one probe per candidate has run, and the
\* i-th probe was called with the host and port of the i-th candidate.
C3_EachCandidateProbedWithItsOwnHostAndPort ==
    /\ executor = "shutdown" => Len(running_tasks) = Len(record_tuples)
    /\ \A i \in 1..Len(running_tasks) :
          running_tasks[i].state = "done" =>
              /\ running_tasks[i].host = record_tuples[i].host
              /\ running_tasks[i].port = record_tuples[i].port

\* C4: the full list of a call that returned holds the uri of every candidate
\* whose probe outcome is Reachable and of no candidate whose probe outcome is
\* Unreachable.
C4_FullIsExactlyTheReachableCandidates ==
    pc = "done" =>
        \A i \in Candidates :
            CandidateReachable(i) <=> CandidateUri(i) \in Elements(result_list)

\* How often x occurs in a sequence.
Count(seq, x) == Cardinality({i \in 1..Len(seq) : seq[i] = x})

\* C5: the latencies measured for the elements of a returned full list do not
\* decrease along the list. The i-th element of the full list is the uri of
\* the i-th of the sorted tuples, which are the Reachable results collected.
C5_FullIsOrderedByLatency ==
    pc = "done" =>
        /\ Len(result_list) = Len(rtt_uri_tuples)
        /\ \A i \in 1..Len(result_list) : result_list[i] = rtt_uri_tuples[i].uri
        /\ \A i \in 1..Len(rtt_results) :
              Count(rtt_uri_tuples, rtt_results[i]) = Count(rtt_results, rtt_results[i])
        /\ \A i, j \in 1..Len(rtt_uri_tuples) :
              i < j => rtt_uri_tuples[i].rtt <= rtt_uri_tuples[j].rtt

\* C5's case: two probes came back Reachable, the first submitted one the
\* slower, and the call returned.
C5_Witness ==
    /\ pc = "done"
    /\ Len(rtt_results) >= 2
    /\ rtt_results[1].rtt > rtt_results[2].rtt
    /\ Len(result_list) >= 2

\* C6: limited is full[:limit] when the limit is given, positive and smaller
\* than len(full); for every other limit (None, zero, negative, >= len(full))
\* limited is full. In every case limited is a prefix of full.
C6_LimitedIsFullUpToAPositiveLimit ==
    pc = "done" =>
        /\ IF server_limit.tag = "int" /\ server_limit.val > 0
              /\ server_limit.val < Len(result_list)
           THEN short_list = SubSeq(result_list, 1, server_limit.val)
           ELSE short_list = result_list
        /\ Len(short_list) <= Len(result_list)
        /\ short_list = SubSeq(result_list, 1, Len(short_list))

\* C7: the full list of a call that returned holds no uri twice. It is stated
\* here for the DNS answers that name no host and port twice, where two equal
\* uris cannot come from two equal records.
C7_FullHasNoDuplicates ==
    (/\ pc = "done"
     /\ \A i, j \in Candidates : i # j => CandidateUri(i) # CandidateUri(j))
        => \A i, j \in 1..Len(result_list) : i # j => result_list[i] # result_list[j]

\* The DNS query failed or answered with no record.
NoRecordResolved == dns_answer.outcome # "answer" \/ dns_answer.records = <<>>

\* C8: when the DNS query fails or answers with no record,
\* _resolve_record_in_dns returns an empty sequence, no exception leaves the
\* call, no probe is submitted, and what the call returns is empty.
C8_DnsFailureYieldsEmptyResult ==
    NoRecordResolved =>
        /\ fault = NoFault
        /\ pc # "raised"
        /\ record_tuples = <<>>
        /\ lookup_rtt_fns = <<>>
        /\ running_tasks = <<>>
        /\ pc = "done" =>
              /\ result.tag = "list"
              /\ result.items = <<>>
              /\ result_list = <<>>
              /\ short_list = <<>>

\* C8's case: the DNS query raised, and the call has returned.
C8_Witness ==
    /\ dns_answer.outcome \in {"DNSException", "Exception"}
    /\ pc = "done"

\* The tuples of the DNS answer, in the order DNS sent them.
AnsweredTuples == [i \in 1..Len(dns_answer.records) |-> RecordTuple(dns_answer.records[i])]

\* C9: what _resolve_record_in_dns returns for a DNS answer is a permutation of
\* the answer's records, sorted by priority ascending, then by weight
\* descending, and the records of equal priority and weight are in the order
\* DNS sent them.
C9_ResolverOutputIsStablySorted ==
    (pc = "order" /\ dns_answer.outcome = "answer") =>
        /\ Len(record_tuples) = Len(AnsweredTuples)
        /\ \A i, j \in 1..Len(record_tuples) :
              i < j =>
                 \/ record_tuples[i].priority < record_tuples[j].priority
                 \/ /\ record_tuples[i].priority = record_tuples[j].priority
                    /\ record_tuples[i].weight >= record_tuples[j].weight
        /\ \A k \in 1..Len(AnsweredTuples) :
              LET SameRank(t) == /\ t.priority = AnsweredTuples[k].priority
                                 /\ t.weight = AnsweredTuples[k].weight
              IN  SelectSeq(record_tuples, SameRank) = SelectSeq(AnsweredTuples, SameRank)

\* C9's case: the resolver returned records that it had to reorder, two of
\* them of equal priority and weight but of different hosts.
C9_Witness ==
    /\ pc = "order"
    /\ record_tuples # AnsweredTuples
    /\ \E i, j \in 1..Len(record_tuples) :
          /\ i < j
          /\ record_tuples[i].priority = record_tuples[j].priority
          /\ record_tuples[i].weight = record_tuples[j].weight
          /\ record_tuples[i].host # record_tuples[j].host

-----------------------------------------------------------------------------
(* _check_kdc_availability_and_rtt, one statement at a time.               *)

\* What a probe followed on its own leaves alone.
call_vars == <<kind, dns_answer, net, pc, record_name, server_limit, secure,
               record_tuples, lookup_rtt_fns, server_host, server_port, executor,
               running_tasks, rtt_results, rtt_uri_tuples, result_list, short_list,
               result, fault, socket_errors, previous>>

\* A candidate order that would try IPv4 first.
KdcCandidatesIPv4First == <<"AF_INET", "AF_INET6">>

\* lines 239-240: candidates, the IPv6 socket first
KdcCandidates == <<"AF_INET6", "AF_INET">>

\* line 246: how temp_socket.connect() ends against a host: it returns, or
\* raises socket.error (refused, timed out, unresolvable), or raises something
\* else (an address connect() cannot encode)
ConnectOutcomes(mode, family) ==
    IF socket_connect(mode, family) THEN {"ok"} ELSE {"socket.error", "other"}

\* line 254: how temp_socket.shutdown(SHUT_RDWR) ends: on a socket that is not
\* connected it raises socket.error (ENOTCONN); on a connected one it returns,
\* unless the peer has already reset the connection
ShutdownOutcomes(state) ==
    IF state = "connected" THEN {"ok", "socket.error"} ELSE {"socket.error"}

\* A loop that would give up after the first candidate failed.
AfterTryGivingUp(p) ==
    IF p.pending = "return" THEN [p EXCEPT !.pc = "returned"]
    ELSE [p EXCEPT !.pc = "returned", !.result = PyNone]

\* Leaving the finally clause of lines 252-257 and the outer try: a return in
\* flight completes (line 248); otherwise the except clause of line 249 or of
\* line 258 has swallowed the exception and the for loop of line 242 goes on
\* to the next candidate, or to line 260 when there is none.
AfterTry(p) ==
    IF p.pending = "return" THEN [p EXCEPT !.pc = "returned"]
    ELSE IF p.index < Len(KdcCandidates)
         THEN [p EXCEPT !.pc = "connect", !.index = @ + 1]
         ELSE [p EXCEPT !.pc = "returned", !.result = PyNone]

\* lines 228-231: the probe is called; no socket exists yet
CallKdcProbe(host, port) ==
    /\ kind = "KDC"
    /\ probe = NoProbe
    /\ probe' = [pc |-> "socket4", host |-> host, port |-> port,
                 sockets |-> [f \in {"AF_INET", "AF_INET6"} |-> "absent"],
                 index |-> 0, attempts |-> <<>>, pending |-> "none",
                 result |-> PyNone]
    /\ UNCHANGED call_vars

\* line 233: test_socket4 = socket.socket(AF_INET, SOCK_STREAM), in no try block
CreateSocket4 ==
    /\ probe.pc = "socket4"
    /\ probe' = IF socket_errors = "AF_INET"
                THEN [probe EXCEPT !.pc = "raised", !.result = PyRaise("OSError")]
                ELSE [probe EXCEPT !.pc = "socket6", !.sockets["AF_INET"] = "created"]
    /\ UNCHANGED call_vars

\* line 236: test_socket6 = socket.socket(AF_INET6, SOCK_STREAM), in no try block
CreateSocket6 ==
    /\ probe.pc = "socket6"
    /\ probe' = IF socket_errors = "AF_INET6"
                THEN [probe EXCEPT !.pc = "raised", !.result = PyRaise("OSError")]
                ELSE [probe EXCEPT !.pc = "connect", !.index = 1,
                                   !.sockets["AF_INET6"] = "created"]
    /\ UNCHANGED call_vars

\* lines 242-251: the next candidate's connect(), timed; on success the return
\* of line 248 is in flight while the finally clause runs
Connect(outcome, rtt) ==
    /\ probe.pc = "connect"
    /\ LET family == KdcCandidates[probe.index]
       IN  /\ outcome \in ConnectOutcomes(net[probe.host], family)
           /\ probe' =
                IF outcome = "ok"
                THEN [probe EXCEPT
                        !.pc = "shutdown",
                        !.sockets[family] = "connected",
                        !.attempts = Append(@, [family |-> family, outcome |-> outcome,
                                                rtt |-> rtt]),
                        !.pending = "return",
                        !.result = PyTuple(rtt, KdcUri(probe.host, probe.port))]
                ELSE [probe EXCEPT
                        !.pc = "shutdown",
                        !.attempts = Append(@, [family |-> family, outcome |-> outcome,
                                                rtt |-> rtt]),
                        !.pending = "next"]
    /\ UNCHANGED call_vars

\* line 254: temp_socket.shutdown(SHUT_RDWR); when it raises socket.error the
\* except clause of line 256 is entered and line 255 is skipped
Shutdown(outcome) ==
    /\ probe.pc = "shutdown"
    /\ LET family == KdcCandidates[probe.index]
       IN  /\ outcome \in ShutdownOutcomes(probe.sockets[family])
           /\ probe' = IF outcome = "ok"
                       THEN [probe EXCEPT !.pc = "close", !.sockets[family] = "shut"]
                       ELSE AfterTry(probe)
    /\ UNCHANGED call_vars

\* line 255: temp_socket.close()
Close ==
    /\ probe.pc = "close"
    /\ probe' = AfterTry([probe EXCEPT !.sockets[KdcCandidates[probe.index]] = "closed"])
    /\ UNCHANGED call_vars


-----------------------------------------------------------------------------
(* _check_ldap_server_availability_and_rtt, one statement at a time.       *)

\* A probe that would negotiate TLS whatever `secure` says.
AlwaysStartTls(secure_) == TRUE

\* line 199: if secure
NeedsStartTls(secure_) == secure_

\* lines 191-196: the probe is called; Server and Connection are constructed,
\* the connection is not open yet
CallLdapProbe(host, port, secure_) ==
    /\ kind = "LDAP"
    /\ probe = NoProbe
    /\ probe' = [pc |-> "open", host |-> host, port |-> port, secure |-> secure_,
                 conn |-> "constructed", opens |-> 0, start_tls |-> <<>>,
                 caught |-> FALSE, result |-> PyNone]
    /\ UNCHANGED call_vars

\* line 198: conn.open(); when it raises, the bare except of line 204 returns
\* None; when it returns and secure is false, lines 203 and 211 return the
\* tuple
ConnOpen(rtt) ==
    /\ probe.pc = "open"
    /\ probe' =
         IF conn_open(net[probe.host]) = "raise"
         THEN [probe EXCEPT !.pc = "returned", !.opens = @ + 1, !.caught = TRUE,
                            !.result = PyNone]
         ELSE IF NeedsStartTls(probe.secure)
              THEN [probe EXCEPT !.pc = "start_tls", !.opens = @ + 1, !.conn = "open"]
              ELSE [probe EXCEPT !.pc = "returned", !.opens = @ + 1, !.conn = "open",
                                 !.result = PyTuple(rtt, LdapUri(probe.host, probe.port))]
    /\ UNCHANGED call_vars

\* lines 200-202: conn.start_tls(): false returns None at line 202, an
\* exception returns None at line 210, true goes on to lines 203 and 211.
\* start_tls records the state the connection was in when it was called.
ConnStartTls(rtt) ==
    /\ probe.pc = "start_tls"
    /\ LET outcome == conn_start_tls(net[probe.host])
       IN  probe' =
             IF outcome = "true"
             THEN [probe EXCEPT !.pc = "returned",
                                !.start_tls = Append(@, probe.conn),
                                !.result = PyTuple(rtt, LdapUri(probe.host, probe.port))]
             ELSE [probe EXCEPT !.pc = "returned",
                                !.start_tls = Append(@, probe.conn),
                                !.caught = (outcome = "raise"),
                                !.result = PyNone]
    /\ UNCHANGED call_vars

-----------------------------------------------------------------------------
(* One probe call against every network.                                   *)

InitProbe ==
    /\ kind \in {"LDAP", "KDC"}
    /\ dns_answer = [outcome |-> "answer", records |-> <<>>]
    /\ net \in [Hosts -> ModesOf(kind)]
    /\ socket_errors \in SocketErrorsOf(kind)
    /\ previous = NoPrevious
    /\ probe = NoProbe
    /\ Idle

NextProbe ==
    \/ \E h \in Hosts : \E p \in KdcPorts : CallKdcProbe(h, p)
    \/ CreateSocket4
    \/ CreateSocket6
    \/ \E o \in {"ok", "socket.error", "other"} : \E rtt \in Latencies : Connect(o, rtt)
    \/ \E o \in {"ok", "socket.error"} : Shutdown(o)
    \/ Close
    \/ \E h \in Hosts : \E p \in LdapPorts : \E s \in BOOLEAN : CallLdapProbe(h, p, s)
    \/ \E rtt \in Latencies : ConnOpen(rtt)
    \/ \E rtt \in Latencies : ConnStartTls(rtt)

SpecProbe == InitProbe /\ [][NextProbe]_vars


-----------------------------------------------------------------------------
(* Claims about the KDC probe.                                             *)

\* The KDC probe has been called and has not raised out of socket.socket().
KdcProbeCalled == kind = "KDC" /\ probe.pc \notin {"none", "socket4", "socket6", "raised"}

\* The KDC probe has returned.
KdcProbeReturned == kind = "KDC" /\ probe.pc = "returned"

\* The connect attempts the probe has made over an address family.
AttemptsOver(family) ==
    {i \in 1..Len(probe.attempts) : probe.attempts[i].family = family}

\* C11: the first connect the KDC probe attempts is over IPv6; it attempts a
\* connect over IPv4 exactly when the IPv6 attempt failed, whatever the
\* failure was; and it attempts each address family at most once.
C11_IPv6FirstThenIPv4OnlyAfterFailure ==
    KdcProbeCalled =>
        /\ Len(probe.attempts) >= 1 => probe.attempts[1].family = "AF_INET6"
        /\ Cardinality(AttemptsOver("AF_INET6")) <= 1
        /\ Cardinality(AttemptsOver("AF_INET")) <= 1
        /\ AttemptsOver("AF_INET") # {} =>
              /\ Len(probe.attempts) = 2
              /\ probe.attempts[1].outcome # "ok"
        /\ probe.pc = "returned" =>
              /\ Len(probe.attempts) >= 1
              /\ probe.attempts[1].outcome # "ok" <=> AttemptsOver("AF_INET") # {}

\* The probe returned after an IPv6 connect that failed with something other
\* than socket.error, and an IPv4 connect.
C11_Witness ==
    /\ KdcProbeReturned
    /\ Len(probe.attempts) = 2
    /\ probe.attempts[1].outcome = "other"
    /\ probe.attempts[2].family = "AF_INET"

\* The attempts whose connect succeeded.
SucceededAttempts == {i \in 1..Len(probe.attempts) : probe.attempts[i].outcome = "ok"}

\* C12: the KDC probe returns Reachable, with the latency of the connect that
\* succeeded, whenever a connect succeeds over IPv6 or IPv4, so for a host
\* that answers over IPv4 only it returns the IPv4 latency; it returns
\* Unreachable exactly when the attempts over both families failed.
C12_ReachableIffSomeFamilyConnects ==
    KdcProbeReturned =>
        /\ probe.result.tag \in {"tuple", "None"}
        /\ probe.result.tag = "tuple" <=> SucceededAttempts # {}
        /\ \A i \in SucceededAttempts :
              probe.result = PyTuple(probe.attempts[i].rtt,
                                     KdcUri(probe.host, probe.port))
        /\ (\E f \in {"AF_INET6", "AF_INET"} : socket_connect(net[probe.host], f))
              => probe.result.tag = "tuple"
        /\ net[probe.host] = "v4_only" =>
              \E i \in AttemptsOver("AF_INET") :
                  probe.result = PyTuple(probe.attempts[i].rtt,
                                         KdcUri(probe.host, probe.port))
        /\ probe.result = PyNone <=>
              /\ AttemptsOver("AF_INET6") # {}
              /\ AttemptsOver("AF_INET") # {}
              /\ SucceededAttempts = {}
        /\ \E rtt \in Latencies :
              probe.result = _check_kdc_availability_and_rtt(
                                 probe.host, probe.port, net[probe.host], rtt)

\* A host that answers over IPv4 only was probed: the IPv6 connect took longer
\* than the IPv4 one, and the probe returned the IPv4 latency.
C12_Witness ==
    /\ KdcProbeReturned
    /\ net[probe.host] = "v4_only"
    /\ Len(probe.attempts) = 2
    /\ probe.attempts[1].rtt > probe.attempts[2].rtt
    /\ probe.result = PyTuple(probe.attempts[2].rtt, KdcUri(probe.host, probe.port))

\* C13: when the KDC probe returns, over whichever path, each of the two
\* sockets it created has been closed with close(), also when shutdown()
\* failed on it.
C13_EverySocketIsClosedAtReturn ==
    KdcProbeReturned =>
        \A f \in {"AF_INET6", "AF_INET"} : probe.sockets[f] = "closed"


-----------------------------------------------------------------------------
(* Claims about the LDAP probe.                                            *)

\* The LDAP probe has been called.
LdapProbeCalled == kind = "LDAP" /\ probe.pc # "none"

\* The LDAP probe has returned.
LdapProbeReturned == kind = "LDAP" /\ probe.pc = "returned"

\* C18: the LDAP probe calls open at most once and start_tls at most once,
\* start_tls only when secure is true and on a connection that open has
\* opened; an exception out of open or start_tls makes the probe return
\* Unreachable, and none leaves the probe.
C18_SingleAttemptAndExceptionsYieldUnreachable ==
    LdapProbeCalled =>
        /\ probe.opens <= 1
        /\ Len(probe.start_tls) <= 1
        /\ Len(probe.start_tls) = 1 =>
              /\ probe.secure
              /\ probe.opens = 1
              /\ probe.start_tls[1] = "open"
        /\ probe.pc # "raised"
        /\ probe.caught => (probe.pc = "returned" /\ probe.result = PyNone)
        /\ probe.pc = "returned" =>
              /\ probe.opens = 1
              /\ \E rtt \in Latencies :
                    probe.result = _check_ldap_server_availability_and_rtt(
                                       probe.host, probe.port, probe.secure,
                                       net[probe.host], rtt)

\* A secure probe opened the connection, start_tls raised, and the probe
\* returned Unreachable.
C18_Witness ==
    /\ LdapProbeReturned
    /\ probe.secure
    /\ probe.opens = 1
    /\ Len(probe.start_tls) = 1
    /\ probe.caught
    /\ probe.result = PyNone

\* C19: when the LDAP probe returns, over whichever path, the connection it
\* opened is open no more.
C19_ConnectionIsClosedAtReturn ==
    LdapProbeReturned => probe.conn # "open"


-----------------------------------------------------------------------------
(* Claims about a whole discovery call.                                    *)

\* The limit the entry point was called with is not one a caller may pass.
InvalidLimit == server_limit.tag = "int" /\ server_limit.val < 0

\* C14: a call of an entry point with a negative server_limit raises at the
\* entry point: it never gets to the DNS query or to a probe, and it returns
\* no list.
C14_InvalidLimitRaisesAtEntry ==
    (pc # "idle" /\ InvalidLimit) =>
        /\ pc = "raised"
        /\ record_tuples = <<>>
        /\ running_tasks = <<>>


\* Every closure has been dispatched and no dispatched probe is still pending
\* or running.
NoProbeInFlight ==
    /\ Len(running_tasks) = Len(lookup_rtt_fns)
    /\ \A i \in 1..Len(running_tasks) : running_tasks[i].state = "done"

\* C16: however the worker threads interleave, filtering and sorting start
\* only when every dispatched probe has completed and its result has been
\* collected; and when the ranking returns, or lets the exception of a probe
\* task through, no dispatched probe is in flight and the pool is shut down.
C16_RankingWaitsForEveryProbe ==
    /\ pc \in {"filter", "done"} =>
          /\ NoProbeInFlight
          /\ Len(rtt_results) = Len(running_tasks)
          /\ executor = "shutdown"
    /\ (pc = "raised" /\ executor # "none") =>
          /\ NoProbeInFlight
          /\ executor = "shutdown"

\* The first of two probe tasks raised; the exception left the call after the
\* second task had completed and the pool had been shut down.
C16_Witness ==
    /\ pc = "raised"
    /\ fault = "OSError"
    /\ Len(running_tasks) = 2
    /\ rtt_results = <<>>
    /\ NoProbeInFlight
    /\ executor = "shutdown"


-----------------------------------------------------------------------------
(* The caller calls the entry point a second time.                         *)

\* The latencies the probes of a call measured, per host they reached.
Measured ==
    [h \in Hosts |->
        {running_tasks[i].result.rtt :
            i \in {j \in 1..Len(running_tasks) :
                      /\ running_tasks[j].state = "done"
                      /\ running_tasks[j].host = h
                      /\ running_tasks[j].result.tag = "tuple"}}]

\* lines 32-51 / 54-71 once more, with the arguments of the call that has
\* ended, when DNS answers `answer` by now. The entry point keeps nothing
\* between calls: every local of the first call is gone, the module has no
\* variable of its own, and the second call starts from fresh frames.
\* `previous` records how the first call ended.
CallAgain(answer) ==
    /\ Ended
    /\ previous = NoPrevious
    /\ previous' = [ended |-> pc, result |-> result, fault |-> fault,
                    dns_answer |-> dns_answer, measured |-> Measured]
    /\ dns_answer' = answer
    /\ pc' = "resolve"
    /\ record_tuples' = <<>>
    /\ lookup_rtt_fns' = <<>>
    /\ server_host' = Unbound
    /\ server_port' = 0
    /\ executor' = "none"
    /\ running_tasks' = <<>>
    /\ rtt_results' = <<>>
    /\ rtt_uri_tuples' = <<>>
    /\ result_list' = <<>>
    /\ short_list' = <<>>
    /\ result' = PyNone
    /\ fault' = NoFault
    /\ UNCHANGED <<kind, net, record_name, server_limit, secure, socket_errors, probe>>

\* A call for the whole domain, and a second one against an unchanged DNS.
NextRepeat ==
    \/ \E limit \in Limits, secure_ \in BOOLEAN :
          discover_ldap_domain_controllers_in_domain(NoSite, limit, secure_)
    \/ \E limit \in Limits :
          discover_kdc_domain_controllers_in_domain(NoSite, limit)
    \/ ResolveRecordInDns
    \/ OrderLoopIteration
    \/ EnterThreadPool
    \/ Submit
    \/ \E i \in 1..MaxRecords, rtt \in Latencies : RunTask(i, rtt)
    \/ CollectResult
    \/ ExitThreadPool
    \/ FilterSortReturn
    \/ CallAgain(dns_answer)

SpecRepeat == InitFlat /\ [][NextRepeat]_vars


\* The caller has called twice and the second call has ended.
CalledTwice == previous # NoPrevious /\ Ended

\* Over the two calls, no host was measured at two different latencies.
SameLatencies ==
    \A h \in Hosts : Cardinality(previous.measured[h] \cup Measured[h]) <= 1

\* The second call ended as the first one did.
SameOutcome ==
    /\ pc = previous.ended
    /\ fault = previous.fault
    /\ result = previous.result

\* C17: when DNS answers the same records and every endpoint has the same
\* reachability and latency throughout, a second discovery call ends as the
\* first one did, whatever the order in which the probes of either call
\* started and completed.
C17_SameResultForEveryInterleavingAndRepetition ==
    (CalledTwice /\ previous.dns_answer = dns_answer /\ SameLatencies) => SameOutcome

\* Two calls with two probes each have returned the same non-empty list.
C17_Witness ==
    /\ CalledTwice
    /\ previous.dns_answer = dns_answer
    /\ SameLatencies
    /\ Len(running_tasks) = 2
    /\ pc = "done"
    /\ previous.ended = "done"
    /\ result.items # <<>>
    /\ result = previous.result


-----------------------------------------------------------------------------
(* The caller calls again after DNS has changed priorities and weights.    *)

\* The records of b are those of a, each with some priority and weight.
SameCandidates(a, b) ==
    /\ b.outcome = a.outcome
    /\ Len(b.records) = Len(a.records)
    /\ \A i \in 1..Len(a.records) :
          /\ b.records[i].target = a.records[i].target
          /\ b.records[i].port = a.records[i].port

Reprioritised(a) == {b \in DnsAnswers(kind) : SameCandidates(a, b)}

\* The network is up: socket.socket() does not fail.
InitReorder ==
    /\ kind \in {"LDAP", "KDC"}
    /\ dns_answer \in DnsAnswers(kind)
    /\ net \in [Hosts -> ModesOf(kind)]
    /\ socket_errors = "none"
    /\ previous = NoPrevious
    /\ probe = NoProbe
    /\ Idle

\* A call for the whole domain without a limit, and a second one after the
\* priorities and weights of the records have changed.
NextReorder ==
    \/ \E secure_ \in BOOLEAN :
          discover_ldap_domain_controllers_in_domain(NoSite, PyNone, secure_)
    \/ discover_kdc_domain_controllers_in_domain(NoSite, PyNone)
    \/ ResolveRecordInDns
    \/ OrderLoopIteration
    \/ EnterThreadPool
    \/ Submit
    \/ \E i \in 1..MaxRecords, rtt \in Latencies : RunTask(i, rtt)
    \/ CollectResult
    \/ ExitThreadPool
    \/ FilterSortReturn
    \/ (Ended /\ \E answer \in Reprioritised(dns_answer) : CallAgain(answer))

SpecReorder == InitReorder /\ [][NextReorder]_vars

\* C15: two DNS answers with the same hosts and ports, which differ only in
\* priority and weight, lead to the same result when every host has the same
\* reachability and latency: priority and weight decide neither which
\* endpoints are returned nor their order.
C15_PriorityAndWeightDoNotInfluenceTheResult ==
    (CalledTwice /\ SameCandidates(previous.dns_answer, dns_answer) /\ SameLatencies)
        => SameOutcome

====
